---- MODULE Spec2Model ----
(***************************************************************************)
(* Sign-language detection server (src/Ctrl-A/sign_language_server.py):    *)
(* the module-level detection state, the per-frame classification ->       *)
(* confidence gate -> debounce -> action dispatch of process_frame, the    *)
(* worker thread running detection_loop, and the HTTP control handlers.    *)
(*                                                                         *)
(* Probabilities are floats in [0,1] in the source; here they are integers *)
(* in hundredths (0.65 is 65), which keeps every comparison of the source. *)
(* Python's None is the string "None" for names and NoProba for a missing  *)
(* probability.  A frame is reduced to what process_frame reads from it:   *)
(* the number of detected hands and what the classifier answers for it.    *)
(***************************************************************************)
EXTENDS Integers, Sequences, FiniteSets, TLC

(* ----------------------------- bounds ---------------------------------- *)
\* longest text buffer explored
MaxLen == 2
\* largest value of frames_since_last_char explored
MaxCount == 6
\* number of worker threads that can exist at the same time
MaxWorkers == 2
\* longest run of same-label frames the history of SpecFrames counts
MaxRun == 6
\* longest list of published characters the history of SpecFrames keeps
MaxEvents == 2
\* most rows in password_reset_tokens
MaxTokens == 2
\* most rows in sessions
MaxSessions == 2
\* most reminders added to the scheduler
MaxReminders == 2

(* ------------------------ program constants ---------------------------- *)
None == "None"
NoProba == -1

repeat_cooldown_frames == 5

CONFIDENCE_THRESHOLD == 65

ACTION_GESTURES ==
    [g \in {"SPACE", "BACKSPACE", "DELETE", "S", "B", "D"} |->
        CASE g = "SPACE" -> "SPACE"
          [] g = "BACKSPACE" -> "BACKSPACE"
          [] g = "DELETE" -> "DELETE"
          [] g = "S" -> "SPACE"
          [] g = "B" -> "BACKSPACE"
          [] g = "D" -> "DELETE"]

PER_CLASS_THRESHOLDS ==
    [c \in {"C", "D", "U", "N", "2", "1", "I"} |->
        CASE c = "C" -> 22
          [] c = "D" -> 45
          [] c = "U" -> 40
          [] c = "N" -> 20
          [] c = "2" -> 50
          [] c = "1" -> 50
          [] c = "I" -> 30]

LabelNames ==
    << "1", "2", "3", "4", "5", "6", "7", "8", "9",
       "A", "B", "C", "D", "E", "F", "G", "H", "I", "J", "K", "L", "M",
       "N", "O", "P", "Q", "R", "S", "T", "U", "V", "W", "X", "Y", "Z" >>

labels_dict == [i \in 0..(Len(LabelNames) - 1) |-> LabelNames[i + 1]]

(* the action lookup that knows no action for 'S' *)
ActionOf_NoSpace(character) ==
    IF character \in DOMAIN ACTION_GESTURES \ {"S"}
    THEN ACTION_GESTURES[character]
    ELSE None

(* dict.get(key, default) of the two lookup tables *)
ActionOf(character) ==
    IF character \in DOMAIN ACTION_GESTURES THEN ACTION_GESTURES[character] ELSE None

ThresholdOf(character) ==
    IF character \in DOMAIN PER_CLASS_THRESHOLDS
    THEN PER_CLASS_THRESHOLDS[character]
    ELSE CONFIDENCE_THRESHOLD

(* ''.join(text_buffer) *)
RECURSIVE Join(_)
Join(s) == IF s = << >> THEN "" ELSE Head(s) \o Join(Tail(s))

(* ------------------------------ process_frame -------------------------- *)
(* kind of the loaded model: "none" (model is None), "proba" (it has        *)
(* predict_proba) or "hard" (predict only).                                 *)
ModelKinds == {"none", "proba", "hard"}

(* A frame: hands = number of hands MediaPipe reports; idx = the class      *)
(* index the classifier answers (argmax of predict_proba, or predict);     *)
(* proba = the largest probability, in hundredths; raises = the classifier *)
(* call throws.                                                            *)
Frame(h, i, p, r) == [hands |-> h, idx |-> i, proba |-> p, raises |-> r]

(* lines 170-194: the classification, as (character, proba) *)
Classify(kind, frame) ==
    IF frame.raises
    THEN [character |-> "Unknown", proba |-> NoProba]
    ELSE [character |-> IF frame.idx \in DOMAIN labels_dict
                        THEN labels_dict[frame.idx]
                        ELSE "Unknown",
          proba |-> IF kind = "proba" THEN frame.proba ELSE NoProba]

(* the gate with > where the source has >= *)
PassedThreshold_Strict(character, proba) ==
    IF proba # NoProba THEN proba > ThresholdOf(character) ELSE TRUE

(* lines 196-200: the confidence gate *)
PassedThreshold(character, proba) ==
    IF proba # NoProba THEN proba >= ThresholdOf(character) ELSE TRUE

(* the debounce with > where the source has >= *)
ShouldEmit_StrictCooldown(character, passed, last, count) ==
    /\ character # "Unknown"
    /\ passed
    /\ (character # last \/ count > repeat_cooldown_frames)

(* the debounce with the cooldown applied to a change of label too *)
ShouldEmit_CooldownForAll(character, passed, last, count) ==
    /\ character # "Unknown"
    /\ passed
    /\ (last = None \/ count >= repeat_cooldown_frames)

(* the debounce testing the count of the frames before the current one *)
ShouldEmit_TestBeforeCount(character, passed, last, count) ==
    /\ character # "Unknown"
    /\ passed
    /\ (character # last \/ count - 1 >= repeat_cooldown_frames)

(* lines 227-229: the debounce condition, read after the counter was        *)
(* incremented on line 171                                                  *)
ShouldEmit(character, passed, last, count) ==
    /\ character # "Unknown"
    /\ passed
    /\ (character # last \/ count >= repeat_cooldown_frames)

(* the dispatch with BACKSPACE emptying the buffer *)
Dispatch_BackspaceClears(buffer, character) ==
    LET action == ActionOf(character) IN
    CASE action = "SPACE" -> Append(buffer, " ")
      [] action = "BACKSPACE" -> << >>
      [] action = "DELETE" -> << >>
      [] OTHER -> Append(buffer, character)

(* lines 231-240: the action dispatch on the text buffer *)
Dispatch(buffer, character) ==
    LET action == ActionOf(character) IN
    CASE action = "SPACE" -> Append(buffer, " ")
      [] action = "BACKSPACE" -> IF buffer # << >>
                                 THEN SubSeq(buffer, 1, Len(buffer) - 1)
                                 ELSE buffer
      [] action = "DELETE" -> << >>
      [] OTHER -> Append(buffer, character)

(* lines 246-252: the event sent to the subscribers (top3 left out) *)
SignDetected(character, proba, buffer) ==
    [type |-> "sign_detected",
     character |-> character,
     confidence |-> proba,
     text_buffer |-> Join(buffer),
     action |-> ActionOf(character)]

(* process_frame leaving the counter alone on a frame it does not emit *)
process_frame_RejectUncounted(kind, frame, last, buffer, count) ==
    IF kind = "none" \/ frame.hands = 0
    THEN [last |-> last, buffer |-> buffer, count |-> count,
          events |-> << >>, classified |-> FALSE, emitted |-> FALSE]
    ELSE
      LET cls     == Classify(kind, frame)
          counted == count + 1
          passed  == PassedThreshold(cls.character, cls.proba)
      IN IF ShouldEmit(cls.character, passed, last, counted)
         THEN LET buf == Dispatch(buffer, cls.character) IN
              [last |-> cls.character, buffer |-> buf, count |-> 0,
               events |-> << SignDetected(cls.character, cls.proba, buf) >>,
               classified |-> TRUE, emitted |-> TRUE]
         ELSE [last |-> last, buffer |-> buffer, count |-> count,
               events |-> << >>, classified |-> TRUE, emitted |-> FALSE]

(* process_frame counting a frame without a hand *)
process_frame_CountsEmptyFrames(kind, frame, last, buffer, count) ==
    IF kind = "none"
    THEN [last |-> last, buffer |-> buffer, count |-> count,
          events |-> << >>, classified |-> FALSE, emitted |-> FALSE]
    ELSE IF frame.hands = 0
    THEN [last |-> last, buffer |-> buffer, count |-> count + 1,
          events |-> << >>, classified |-> FALSE, emitted |-> FALSE]
    ELSE
      LET cls     == Classify(kind, frame)
          counted == count + 1
          passed  == PassedThreshold(cls.character, cls.proba)
      IN IF ShouldEmit(cls.character, passed, last, counted)
         THEN LET buf == Dispatch(buffer, cls.character) IN
              [last |-> cls.character, buffer |-> buf, count |-> 0,
               events |-> << SignDetected(cls.character, cls.proba, buf) >>,
               classified |-> TRUE, emitted |-> TRUE]
         ELSE [last |-> last, buffer |-> buffer, count |-> counted,
               events |-> << >>, classified |-> TRUE, emitted |-> FALSE]

(* process_frame publishing the buffer as it was before the dispatch *)
process_frame_StaleEvent(kind, frame, last, buffer, count) ==
    IF kind = "none" \/ frame.hands = 0
    THEN [last |-> last, buffer |-> buffer, count |-> count,
          events |-> << >>, classified |-> FALSE, emitted |-> FALSE]
    ELSE
      LET cls     == Classify(kind, frame)
          counted == count + 1
          passed  == PassedThreshold(cls.character, cls.proba)
      IN IF ShouldEmit(cls.character, passed, last, counted)
         THEN LET buf == Dispatch(buffer, cls.character) IN
              [last |-> cls.character, buffer |-> buf, count |-> 0,
               events |-> << SignDetected(cls.character, cls.proba, buffer) >>,
               classified |-> TRUE, emitted |-> TRUE]
         ELSE [last |-> last, buffer |-> buffer, count |-> counted,
               events |-> << >>, classified |-> TRUE, emitted |-> FALSE]

(* process_frame(frame) on the state (last, buffer, count): the new state,  *)
(* the events it publishes and whether the classifier was called.          *)
process_frame(kind, frame, last, buffer, count) ==
    IF kind = "none" \/ frame.hands = 0
    THEN [last |-> last, buffer |-> buffer, count |-> count,
          events |-> << >>, classified |-> FALSE, emitted |-> FALSE]
    ELSE
      LET cls     == Classify(kind, frame)
          counted == count + 1
          passed  == PassedThreshold(cls.character, cls.proba)
      IN IF ShouldEmit(cls.character, passed, last, counted)
         THEN LET buf == Dispatch(buffer, cls.character) IN
              [last |-> cls.character, buffer |-> buf, count |-> 0,
               events |-> << SignDetected(cls.character, cls.proba, buf) >>,
               classified |-> TRUE, emitted |-> TRUE]
         ELSE [last |-> last, buffer |-> buffer, count |-> counted,
               events |-> << >>, classified |-> TRUE, emitted |-> FALSE]

(* ------------------------- the feature vector -------------------------- *)
(* A detected hand: label = its handedness ("Left", "Right", or None when   *)
(* multi_handedness has no entry for it), landmark = its landmarks in       *)
(* order, each << x, y >> in thousandths of the frame's width and height.   *)
Hand(label, lms) == [label |-> label, landmark |-> lms]

\* line 62: Hands(max_num_hands=2)
max_num_hands == 2
\* a MediaPipe hand has 21 landmarks; line 164 counts 21 * 2 features for it
NumLandmarks == 21
hand_feat_len == NumLandmarks * 2

(* the key with Right before Left *)
sort_key_RightFirst(item) ==
    IF item.label = "Right" THEN 0
    ELSE IF item.label = "Left" THEN 1
    ELSE 2

(* lines 127-133 *)
sort_key(item) ==
    IF item.label = "Left" THEN 0
    ELSE IF item.label = "Right" THEN 1
    ELSE 2

(* line 134: paired.sort(key=sort_key); list.sort is stable *)
SortPaired(paired) ==
    SelectSeq(paired, LAMBDA p : sort_key(p) = 0)
    \o SelectSeq(paired, LAMBDA p : sort_key(p) = 1)
    \o SelectSeq(paired, LAMBDA p : sort_key(p) = 2)

MinOf(S) == CHOOSE m \in S : \A x \in S : m <= x

(* the features of one hand with the x coordinates only *)
HandFeatures_XOnly(hand) ==
    LET lms   == hand.landmark
        min_x == MinOf({ lms[i][1] : i \in DOMAIN lms })
    IN [k \in 1..Len(lms) |-> lms[k][1] - min_x]

(* the features of one hand taken from its first landmark, not its minimum *)
HandFeatures_FromFirst(hand) ==
    LET lms == hand.landmark
    IN [k \in 1..(2 * Len(lms)) |->
          IF k % 2 = 1 THEN lms[(k + 1) \div 2][1] - lms[1][1]
                       ELSE lms[k \div 2][2] - lms[1][2]]

(* lines 147-156: x - min_x, y - min_y of every landmark, interleaved *)
HandFeatures(hand) ==
    LET lms   == hand.landmark
        min_x == MinOf({ lms[i][1] : i \in DOMAIN lms })
        min_y == MinOf({ lms[i][2] : i \in DOMAIN lms })
    IN [k \in 1..(2 * Len(lms)) |->
          IF k % 2 = 1 THEN lms[(k + 1) \div 2][1] - min_x
                       ELSE lms[k \div 2][2] - min_y]

(* lines 138-157: one feature list per hand that has landmarks *)
RECURSIVE PerHandFeatures(_)
PerHandFeatures(hs) ==
    IF hs = << >> THEN << >>
    ELSE (IF Head(hs).landmark # << >> THEN << HandFeatures(Head(hs)) >> ELSE << >>)
         \o PerHandFeatures(Tail(hs))

(* lines 165-166: while len(per_hand_features) < 2: append zeros *)
RECURSIVE ZeroPad(_)
ZeroPad(per_hand_features) ==
    IF Len(per_hand_features) < 2
    THEN ZeroPad(Append(per_hand_features, [k \in 1..hand_feat_len |-> 0]))
    ELSE per_hand_features

(* lines 110-169: from the detected hands (in detection order) to data_aux. *)
(* built = a vector was made; classify = it goes to the classifier.         *)
BuildFeatures(multi_hands) ==
    IF multi_hands = << >>
    THEN [built |-> FALSE, message |-> None, data_aux |-> << >>, classify |-> FALSE]
    ELSE
      LET paired == SortPaired(multi_hands)
          first2 == SubSeq(paired, 1, IF Len(paired) < 2 THEN Len(paired) ELSE 2)
          per_hand_features == PerHandFeatures(first2)
      IN IF per_hand_features = << >>
         THEN [built |-> FALSE, message |-> "No landmarks detected",
               data_aux |-> << >>, classify |-> FALSE]
         ELSE LET padded == ZeroPad(per_hand_features)
                  data   == padded[1] \o padded[2]
              IN [built |-> TRUE, message |-> None, data_aux |-> data,
                  classify |-> Len(data) = 84]

(* the hands offered to the feature extraction: a handedness, one of two    *)
(* places in the frame and one of two poses; and a hand without landmarks   *)
HandLabels == {"Left", "Right", None}
HandPlaces == { << 100, 200 >>, << 400, 300 >> }
HandPoses == {1, 2}
LandmarksOf(place, pose) ==
    [i \in 1..NumLandmarks |->
        << place[1] + 10 * ((i * pose) % 5), place[2] + 10 * ((i + pose) % 4) >>]
FullHands ==
    { Hand(l, LandmarksOf(pl, po)) : l \in HandLabels, pl \in HandPlaces, po \in HandPoses }
SomeHands == FullHands \cup { Hand(None, << >>) }
HandLists == UNION { [1..n -> SomeHands] : n \in 0..max_num_hands }

(* ---------------------------- _load_model ------------------------------ *)
(* lines 37-42 *)
candidate_paths ==
    << "./model.p", "<dir>/model.p", "<dir>/models/model.p", "<dir>/../model.p" >>

(* What a candidate path holds: "missing" (open raises FileNotFoundError),  *)
(* "unreadable" (open or pickle.load raises something else), "notdict" (the *)
(* pickle loads but the object has no get), "nomodel" (a dict without a     *)
(* 'model' entry, or with None under it), or a dict whose 'model' is a      *)
(* classifier with predict_proba ("proba") or without ("hard").             *)
CandidateKinds == {"missing", "unreadable", "notdict", "nomodel", "proba", "hard"}

(* lines 43-55: the loop over the candidates from the i-th on *)
RECURSIVE LoadFrom(_, _)
LoadFrom(files, i) ==
    IF i > Len(files) THEN "none"                           \* line 55
    ELSE IF files[i] \in {"missing", "unreadable", "notdict"}
    THEN LoadFrom(files, i + 1)                             \* lines 49-53: continue
    ELSE IF files[i] = "nomodel" THEN "none"                \* line 48: get gives None
    ELSE files[i]                                           \* line 48

(* line 57: model = _load_model() *)
load_model(files) == LoadFrom(files, 1)

(* ------------------------------- state --------------------------------- *)
VARIABLES
    model,                     \* kind of the object _load_model returned
    is_detection_active,       \* line 28
    last_predicted_character,  \* line 30
    text_buffer,               \* line 31
    frames_since_last_char,    \* line 32
    latest_frame,              \* line 307: the frame kept for the preview
    wpc,                       \* position of each worker thread in detection_loop
    cap,                       \* each worker's camera handle
    ret,                       \* each worker's local ret of its last cap.read()
    rpc,                       \* position of each request thread in start_detection
    out,                       \* what the last step sent: HTTP response, socket events
    before,                    \* history: the detection state the last frame met
    run,                       \* history: the current run of same-label frames
    published,                 \* history: characters of the sign_detected events
    holding,                   \* history: the debounce state machines run alongside
    standalone,                \* the state of prediction.py run on the same frames
    candidate_files,           \* what each path of candidate_paths holds at import
    multi_hand_landmarks,      \* the hands of the frame given to the feature extraction
    data_aux,                  \* what the feature extraction made of them
    password_hash,             \* database.py: users.password_hash, by user id
    password_reset_tokens,     \* database.py: the rows of password_reset_tokens
    sessions,                  \* database.py: the rows of sessions
    reset_call,                \* each caller's position inside reset_password
    db_out,                    \* what the last DatabaseManager call returned
    reminders,                 \* scheduler.py: ReminderScheduler._reminders
    timers,                    \* scheduler.py: each reminder's timer thread
    swept                      \* history: reminders cancel_all found not yet called

vars == << model, is_detection_active, last_predicted_character,
           text_buffer, frames_since_last_char, latest_frame, wpc, cap, ret, rpc,
           out, before, run, published, holding, standalone, candidate_files,
           multi_hand_landmarks, data_aux, password_hash, password_reset_tokens,
           sessions, reset_call, db_out, reminders, timers, swept >>

\* the history variables are written by the single-session specifications only
hist_vars == << before, run, published, holding, standalone >>

\* the files are read once, at import; the feature extraction is followed in
\* a specification of its own
input_vars == << candidate_files, multi_hand_landmarks, data_aux >>

\* database.py and scheduler.py are programs of their own, each followed in
\* its own specifications
db_vars == << password_hash, password_reset_tokens, sessions, reset_call, db_out >>
sched_vars == << reminders, timers, swept >>
other_vars == << db_vars, sched_vars >>

detection_vars == << last_predicted_character, text_buffer, frames_since_last_char >>

Workers == 1..MaxWorkers

\* the request-handling threads that can be inside start_detection together
Requests == {1, 2}

NoFrame == Frame(0, 0, 0, TRUE)

NoRun == [label |-> None, frames |-> 0, emits |-> 0, idle |-> FALSE]

NoneYet == [chars |-> << >>, more |-> FALSE]
TooMany == [chars |-> << >>, more |-> TRUE]

Response(op, success, message) ==
    [type |-> "response", op |-> op, success |-> success, message |-> message]

Event(type, message) == [type |-> type, message |-> message]

(* frames offered to the worker in the full system *)
CtlFrames ==
    { Frame(0, 0, 0, FALSE),       \* no hand in view
      Frame(1, 16, 65, FALSE) }    \* 'H' at the default threshold

(* the model files met in the full system: none to be found; a model with   *)
(* predict_proba at the second path; one without after two failed loads     *)
CtlCandidates ==
    { << "missing", "missing", "missing", "missing" >>,
      << "missing", "proba", "missing", "missing" >>,
      << "unreadable", "notdict", "hard", "missing" >> }

(* database.py line 286, db = DatabaseManager(), and two create_user calls: *)
(* two users, each with the password given at sign-up, no session, no token *)
DbUsers == {1, 2}
DbCallers == {1, 2}
NoCall == [pc |-> "idle", token |-> 0, user |-> 0, password |-> None]
DbInit ==
    /\ password_hash = [u \in DbUsers |-> "pw0"]
    /\ password_reset_tokens = << >>
    /\ sessions = << >>
    /\ reset_call = [c \in DbCallers |-> NoCall]
    /\ db_out = << >>

(* scheduler.py lines 13-16: ReminderScheduler(on_reminder), nothing added *)
ReminderIds == 1..MaxReminders
NoTimer == [pc |-> "none", finished |-> FALSE, calls |-> 0]
SchedInit ==
    /\ reminders = << >>
    /\ timers = [i \in ReminderIds |-> NoTimer]
    /\ swept = {}

Idle == [label |-> None, n |-> 0]
NoHolding == [stated |-> Idle, amended |-> Idle]

(* prediction.py lines 18-19 and 74-75: its state when its loop begins *)
StandaloneInit ==
    [last |-> None, buffer |-> << >>, count |-> repeat_cooldown_frames,
     accepted |-> FALSE]

(* the state once the module is imported with the model files as in files *)
Imported(files) ==
    /\ candidate_files = files
    /\ model = load_model(files)
    /\ is_detection_active = FALSE
    /\ last_predicted_character = None
    /\ text_buffer = << >>
    /\ frames_since_last_char = 0
    /\ latest_frame = NoFrame
    /\ wpc = [w \in Workers |-> "idle"]
    /\ cap = [w \in Workers |-> "none"]
    /\ ret = [w \in Workers |-> TRUE]
    /\ rpc = [r \in Requests |-> "idle"]
    /\ out = << >>
    /\ before = [last |-> None, buffer |-> << >>, count |-> 0]
    /\ run = NoRun
    /\ published = NoneYet
    /\ holding = NoHolding
    /\ standalone = StandaloneInit
    /\ multi_hand_landmarks = << >>
    /\ data_aux = BuildFeatures(<< >>)
    /\ DbInit
    /\ SchedInit

(* The handlers and the capture loop never look at the kind of the loaded   *)
(* classifier; process_frame's dependence on it is followed from InitFrames. *)
CtlImports == { files \in CtlCandidates : load_model(files) # "hard" }

Init == \E files \in CtlImports : Imported(files)

(* ------------------------- request handlers ---------------------------- *)
FreeWorkers == { w \in Workers : wpc[w] = "idle" }
LiveWorkers == Workers \ FreeWorkers

(* start_detection without the test of is_detection_active *)
StartCheck_NoActiveCheck(r) ==
    /\ rpc[r] = "idle"
    /\ \A q \in Requests : q < r => rpc[q] # "idle"
    /\ IF model = "none"
       THEN /\ out' = << Response("start_detection", FALSE, "Model not loaded") >>
            /\ UNCHANGED rpc
       ELSE /\ out' = << >>
            /\ rpc' = [rpc EXCEPT ![r] = "spawn"]
    /\ UNCHANGED << model, is_detection_active, detection_vars,
                    latest_frame, wpc, cap, ret, hist_vars, input_vars, other_vars >>

(* start_detection without the test of the model *)
StartCheck_NoModelCheck(r) ==
    /\ rpc[r] = "idle"
    /\ \A q \in Requests : q < r => rpc[q] # "idle"
    /\ IF is_detection_active
       THEN /\ out' = << Response("start_detection", FALSE, "Detection already active") >>
            /\ UNCHANGED rpc
       ELSE /\ out' = << >>
            /\ rpc' = [rpc EXCEPT ![r] = "spawn"]
    /\ UNCHANGED << model, is_detection_active, detection_vars,
                    latest_frame, wpc, cap, ret, hist_vars, input_vars, other_vars >>

(* start_detection, lines 346-350: the two checks *)
StartCheck(r) ==
    /\ rpc[r] = "idle"
    /\ \A q \in Requests : q < r => rpc[q] # "idle"   \* the threads are alike
    /\ IF is_detection_active
       THEN /\ out' = << Response("start_detection", FALSE, "Detection already active") >>
            /\ UNCHANGED rpc
       ELSE IF model = "none"
       THEN /\ out' = << Response("start_detection", FALSE, "Model not loaded") >>
            /\ UNCHANGED rpc
       ELSE /\ out' = << >>
            /\ rpc' = [rpc EXCEPT ![r] = "spawn"]
    /\ UNCHANGED << model, is_detection_active, detection_vars,
                    latest_frame, wpc, cap, ret, hist_vars, input_vars, other_vars >>

(* start_detection, lines 352-358: set the flag, reset the buffer, start the thread *)
StartSpawn(r) ==
    /\ rpc[r] = "spawn"
    /\ FreeWorkers # {}
    /\ LET w == CHOOSE x \in FreeWorkers : \A y \in FreeWorkers : x <= y IN
         /\ is_detection_active' = TRUE
         /\ text_buffer' = << >>
         /\ wpc' = [wpc EXCEPT ![w] = "open"]
         /\ cap' = [cap EXCEPT ![w] = "none"]
         /\ ret' = [ret EXCEPT ![w] = TRUE]
    /\ rpc' = [rpc EXCEPT ![r] = "idle"]
    /\ out' = << Response("start_detection", TRUE, "Detection started") >>
    /\ UNCHANGED << model, last_predicted_character, frames_since_last_char,
                    latest_frame, hist_vars, input_vars, other_vars >>

(* stop_detection emptying the text buffer as well *)
stop_detection_ClearsBuffer ==
    /\ is_detection_active' = FALSE
    /\ text_buffer' = << >>
    /\ out' = << Response("stop_detection", TRUE, "Detection stopped") >>
    /\ UNCHANGED << model, last_predicted_character, frames_since_last_char,
                    latest_frame, wpc, cap, ret, rpc, hist_vars, input_vars, other_vars >>

(* stop_detection, lines 361-367 *)
stop_detection ==
    /\ is_detection_active' = FALSE
    /\ out' = << Response("stop_detection", TRUE, "Detection stopped") >>
    /\ UNCHANGED << model, detection_vars, latest_frame,
                    wpc, cap, ret, rpc, hist_vars, input_vars, other_vars >>

(* get_text_buffer, lines 370-372 *)
get_text_buffer ==
    /\ out' = << [type |-> "response", op |-> "get_text_buffer",
                  text_buffer |-> Join(text_buffer)] >>
    /\ UNCHANGED << model, is_detection_active, detection_vars,
                    latest_frame, wpc, cap, ret, rpc, hist_vars, input_vars, other_vars >>

(* clear_buffer forgetting the last accepted label and the frame count too *)
clear_buffer_ResetsDebounce ==
    /\ text_buffer' = << >>
    /\ last_predicted_character' = None
    /\ frames_since_last_char' = 0
    /\ out' = << Response("clear_buffer", TRUE, "Buffer cleared") >>
    /\ UNCHANGED << model, is_detection_active,
                    latest_frame, wpc, cap, ret, rpc, hist_vars, input_vars, other_vars >>

(* clear_buffer, lines 375-379 *)
clear_buffer ==
    /\ text_buffer' = << >>
    /\ out' = << Response("clear_buffer", TRUE, "Buffer cleared") >>
    /\ UNCHANGED << model, is_detection_active,
                    last_predicted_character, frames_since_last_char,
                    latest_frame, wpc, cap, ret, rpc, hist_vars, input_vars, other_vars >>

(* ----------------------- the preview: /video_feed ---------------------- *)
Preview(frame) == [type |-> "preview", frame |-> frame]

(* the generator taking the frame out of the slot when it yields it *)
mjpeg_generator_TakesFrame ==
    /\ IF latest_frame = NoFrame
       THEN out' = << >> /\ UNCHANGED latest_frame
       ELSE \/ out' = << Preview(latest_frame) >> /\ latest_frame' = NoFrame
            \/ out' = << >> /\ UNCHANGED latest_frame
    /\ UNCHANGED << model, is_detection_active, detection_vars,
                    wpc, cap, ret, rpc, hist_vars, input_vars, other_vars >>

(* _mjpeg_generator, lines 312-329: one turn of its loop.  The slot is read *)
(* on line 313 and again on line 317; once a frame is stored the slot is    *)
(* never None again, so the turn is taken at the read of line 317.  With no *)
(* frame, or when imencode fails, nothing is yielded.                       *)
mjpeg_generator ==
    /\ IF latest_frame = NoFrame
       THEN out' = << >>
       ELSE \/ out' = << Preview(latest_frame) >>
            \/ out' = << >>
    /\ UNCHANGED << model, is_detection_active, detection_vars, latest_frame,
                    wpc, cap, ret, rpc, hist_vars, input_vars, other_vars >>

(* --------------------- the worker: detection_loop ---------------------- *)
(* lines 268-279: open the camera; a second handle on the same device may   *)
(* or may not open, so the outcome is free                                  *)
OpenCamera(w) ==
    /\ wpc[w] = "open"
    /\ \/ /\ cap' = [cap EXCEPT ![w] = "open"]
          /\ wpc' = [wpc EXCEPT ![w] = "poll"]
          /\ out' = << Event("status", "Camera started successfully") >>
       \/ /\ cap' = [cap EXCEPT ![w] = "none"]
          /\ wpc' = [wpc EXCEPT ![w] = "idle"]
          /\ out' = << Event("error", "Could not open video capture") >>
    /\ UNCHANGED << model, is_detection_active, detection_vars,
                    latest_frame, ret, rpc, hist_vars, input_vars, other_vars >>

(* line 282: while is_detection_active *)
PollFlag(w) ==
    /\ wpc[w] = "poll"
    /\ wpc' = [wpc EXCEPT ![w] = IF is_detection_active THEN "read" ELSE "exit"]
    /\ out' = << >>
    /\ UNCHANGED << model, is_detection_active, detection_vars,
                    latest_frame, cap, ret, rpc, hist_vars, input_vars, other_vars >>

(* lines 283-285: cap.read() fails, break *)
ReadFail(w) ==
    /\ wpc[w] = "read"
    /\ ret' = [ret EXCEPT ![w] = FALSE]
    /\ wpc' = [wpc EXCEPT ![w] = "exit"]
    /\ out' = << >>
    /\ UNCHANGED << model, is_detection_active, detection_vars,
                    latest_frame, cap, rpc, hist_vars, input_vars, other_vars >>

(* lines 283-300: cap.read() gives frame f; process it; keep it for the preview *)
ReadFrame(w, f) ==
    /\ wpc[w] = "read"
    /\ LET res == process_frame(model, f, last_predicted_character, text_buffer,
                                frames_since_last_char)
       IN /\ res.count <= MaxCount
          /\ Len(res.buffer) <= MaxLen
          /\ last_predicted_character' = res.last
          /\ text_buffer' = res.buffer
          /\ frames_since_last_char' = res.count
          /\ out' = res.events
    /\ ret' = [ret EXCEPT ![w] = TRUE]
    /\ latest_frame' = f
    /\ wpc' = [wpc EXCEPT ![w] = "poll"]
    /\ UNCHANGED << model, is_detection_active, cap, rpc, input_vars, other_vars >>

(* lines 283-288 with socketio.emit raising on line 246: the frame is read  *)
(* and process_frame has updated the detection state (lines 231-243) when   *)
(* the exception leaves process_frame and, uncaught, detection_loop: the    *)
(* thread ends there, and with it its camera handle.                        *)
PublishFails(w, f) ==
    /\ wpc[w] = "read"
    /\ LET res == process_frame(model, f, last_predicted_character, text_buffer,
                                frames_since_last_char)
       IN /\ res.events # << >>
          /\ Len(res.buffer) <= MaxLen
          /\ last_predicted_character' = res.last
          /\ text_buffer' = res.buffer
          /\ frames_since_last_char' = res.count
    /\ out' = << >>
    /\ ret' = [ret EXCEPT ![w] = TRUE]
    /\ cap' = [cap EXCEPT ![w] = "none"]
    /\ wpc' = [wpc EXCEPT ![w] = "idle"]
    /\ UNCHANGED << model, is_detection_active, latest_frame, rpc,
                    hist_vars, input_vars, other_vars >>

(* lines 302-303: release the camera, tell the subscribers *)
ExitLoop(w) ==
    /\ wpc[w] = "exit"
    /\ cap' = [cap EXCEPT ![w] = "none"]
    /\ ret' = [ret EXCEPT ![w] = TRUE]
    /\ wpc' = [wpc EXCEPT ![w] = "idle"]
    /\ out' = << Event("status", "Camera stopped") >>
    /\ UNCHANGED << model, is_detection_active, detection_vars,
                    latest_frame, rpc, hist_vars, input_vars, other_vars >>

WorkerStep(w) ==
    \/ OpenCamera(w)
    \/ PollFlag(w)
    \/ ReadFail(w)
    \/ \E f \in CtlFrames : ReadFrame(w, f) /\ UNCHANGED hist_vars
    \/ \E f \in CtlFrames : PublishFails(w, f)
    \/ ExitLoop(w)

Next ==
    \/ \E r \in Requests : StartCheck(r)
    \/ \E r \in Requests : StartSpawn(r)
    \/ stop_detection
    \/ get_text_buffer
    \/ clear_buffer
    \/ mjpeg_generator
    \/ \E w \in Workers : WorkerStep(w)

Spec == Init /\ [][Next]_vars

(* Each worker is a thread of its own that the interpreter keeps scheduling, *)
(* and cap.read() is taken to return.                                       *)
FairSpec == Spec /\ \A w \in Workers : WF_vars(WorkerStep(w))

(* ------------------ one session, frame after frame --------------------- *)
(* The state right after an accepted start_detection and a camera that      *)
(* opened; from there only the worker runs, and the camera offers a wider   *)
(* choice of frames.  The history variables follow the frames.              *)
FrameLabels == {10, 12, 16, 17, 27}      \* 'B' 'D' 'H' 'I' 'S'
AllFrames ==
    { Frame(0, 0, 0, FALSE),              \* no hand in view
      Frame(1, 16, 65, TRUE),             \* the classifier throws
      Frame(1, 35, 65, FALSE),            \* a class index outside labels_dict
      Frame(2, 17, 30, FALSE) }           \* two hands
    \cup { Frame(1, i, ThresholdOf(labels_dict[i]), FALSE) : i \in FrameLabels }
    \cup { Frame(1, i, ThresholdOf(labels_dict[i]) - 1, FALSE) : i \in FrameLabels }
    \cup { Frame(1, 12, 64, FALSE) }      \* 'D' between its threshold and the default

Accepted(kind, f) ==
    /\ kind # "none"
    /\ f.hands > 0
    /\ Classify(kind, f).character # "Unknown"
    /\ PassedThreshold(Classify(kind, f).character, Classify(kind, f).proba)

RunAfter(kind, f, last, r, res) ==
    LET c == Classify(kind, f).character IN
    IF ~Accepted(kind, f) THEN NoRun
    ELSE IF r.frames > 0 /\ r.label = c
    THEN IF r.frames > MaxRun THEN r
         ELSE [r EXCEPT !.frames = @ + 1, !.emits = @ + Len(res.events)]
    ELSE [label |-> c, frames |-> 1, emits |-> Len(res.events), idle |-> last = None]

PublishedAfter(p, res) ==
    IF res.events = << >> THEN p
    ELSE IF p.more \/ Len(p.chars) >= MaxEvents THEN TooMany
    ELSE [p EXCEPT !.chars = Append(@, res.events[1].character)]

InitFrames ==
    /\ candidate_files \in { files \in CtlCandidates : load_model(files) # "none" }
    /\ model = load_model(candidate_files)
    /\ is_detection_active = TRUE
    /\ last_predicted_character = None
    /\ text_buffer = << >>
    /\ frames_since_last_char = 0
    /\ latest_frame = NoFrame
    /\ wpc = [w \in Workers |-> IF w = 1 THEN "poll" ELSE "idle"]
    /\ cap = [w \in Workers |-> IF w = 1 THEN "open" ELSE "none"]
    /\ ret = [w \in Workers |-> TRUE]
    /\ rpc = [r \in Requests |-> "idle"]
    /\ out = << Event("status", "Camera started successfully") >>
    /\ before = [last |-> None, buffer |-> << >>, count |-> 0]
    /\ run = NoRun
    /\ published = NoneYet
    /\ holding = NoHolding
    /\ standalone = StandaloneInit
    /\ multi_hand_landmarks = << >>
    /\ data_aux = BuildFeatures(<< >>)
    /\ DbInit
    /\ SchedInit

FrameStep(w, f) ==
    /\ ReadFrame(w, f)
    /\ LET res == process_frame(model, f, last_predicted_character, text_buffer,
                                frames_since_last_char)
       IN /\ before' = [last |-> last_predicted_character, buffer |-> text_buffer,
                        count |-> frames_since_last_char]
          /\ run' = RunAfter(model, f, last_predicted_character, run, res)
          /\ published' = PublishedAfter(published, res)

NextFrames ==
    \/ \E w \in Workers : PollFlag(w)
    \/ \E w \in Workers : \E f \in AllFrames : FrameStep(w, f) /\ UNCHANGED << holding, standalone >>

SpecFrames == InitFrames /\ [][NextFrames]_vars

(* ------------------------------ properties ----------------------------- *)
(* In the action properties a step that processes a frame is FrameStep(w, f) *)
(* for the frame f the step leaves in latest_frame.                         *)
IsSignDetected(o) == o # << >> /\ o[1].type = "sign_detected"

\* C1: from no prior accepted label, a run of k consecutive hand-bearing frames
\* on which the same label passes the gate has emitted exactly once (on its
\* first frame) for every k up to cooldown - 1, and exactly twice when
\* k = cooldown + 1.
C1_DebounceIdempotence ==
    run.idle =>
        /\ (run.frames \in 1..(repeat_cooldown_frames - 1) => run.emits = 1)
        /\ (run.frames = repeat_cooldown_frames + 1 => run.emits = 2)

C1_Witness ==
    /\ run.idle
    /\ run.frames = repeat_cooldown_frames + 1
    /\ run.emits = 2

\* C2: a hand-bearing frame whose label passes the gate and differs from the
\* last emitted label is emitted on that very frame, whatever the frame counter:
\* the label becomes the last accepted one, the counter restarts and one
\* sign_detected event carries it.
C2_DebounceResponsive ==
    [][\A w \in Workers : LET f == latest_frame' IN
         ( /\ FrameStep(w, f)
           /\ Accepted(model, f)
           /\ last_predicted_character # None
           /\ Classify(model, f).character # last_predicted_character )
         => ( /\ last_predicted_character' = Classify(model, f).character
              /\ frames_since_last_char' = 0
              /\ IsSignDetected(out')
              /\ out'[1].character = Classify(model, f).character )]_vars

C2_Witness ==
    /\ before.last = "H"
    /\ before.count = 0
    /\ latest_frame = Frame(1, 17, 30, FALSE)
    /\ last_predicted_character = "I"
    /\ frames_since_last_char = 0
    /\ IsSignDetected(out)
    /\ out[1].character = "I"

\* C3: at most one worker thread is executing detection_loop.
C3_SingleSession == Cardinality(LiveWorkers) <= 1

\* C4: start_detection handled while is_detection_active is set answers
\* 'Detection already active' and changes nothing: no thread is spawned, and
\* the flag, the text buffer and the debounce state stay as they are.
C4_StartWhileRunning ==
    [][\A r \in Requests :
         (StartCheck(r) /\ is_detection_active)
         => ( /\ out' = << Response("start_detection", FALSE,
                                    "Detection already active") >>
              /\ UNCHANGED << is_detection_active, detection_vars, wpc, cap,
                              rpc >> )]_vars

C4_Witness ==
    /\ out = << Response("start_detection", FALSE, "Detection already active") >>
    /\ is_detection_active
    /\ LiveWorkers # {}

\* C5: when the worker whose frame read failed leaves detection_loop (camera
\* released, 'Camera stopped' published) and nothing else is going on, the
\* session is Stopped, so that the next start_detection is accepted.
C5_ReadFailureStopsSession ==
    [][\A w \in Workers :
         ( /\ ExitLoop(w)
           /\ ~ret[w]
           /\ LiveWorkers = {w}
           /\ \A r \in Requests : rpc[r] = "idle" )
         => ~is_detection_active']_vars

\* C6: without a model the session never starts: the flag is never set, no
\* worker exists, no camera is opened, the buffer stays as it was, and every
\* answer to start_detection is the rejection 'Model not loaded'.
C6_NoModelNeverStarts ==
    model = "none" =>
        /\ ~is_detection_active
        /\ LiveWorkers = {}
        /\ \A w \in Workers : cap[w] = "none"
        /\ \A r \in Requests : rpc[r] = "idle"
        /\ text_buffer = << >>
        /\ \A i \in 1..Len(out) :
             (out[i].type = "response" /\ out[i].op = "start_detection")
             => (~out[i].success /\ out[i].message = "Model not loaded")

C6_Witness ==
    /\ model = "none"
    /\ out = << Response("start_detection", FALSE, "Model not loaded") >>

\* C7: stop_detection answers success, and a worker that is in the frame loop
\* when it returns eventually leaves the loop and ends (camera released,
\* 'Camera stopped' published).
C7_StopReachesWorker ==
    \A w \in Workers :
        ( /\ out = << Response("stop_detection", TRUE, "Detection stopped") >>
          /\ wpc[w] \in {"poll", "read"} )
        ~> (wpc[w] = "idle" /\ cap[w] = "none")

\* C8: an emission of label L on buffer b leaves b and a space for SPACE, b
\* without its last character for BACKSPACE (b itself when empty), the empty
\* buffer for DELETE, and b followed by L when L is not in the action table.
C8_ActionDispatch ==
    IsSignDetected(out) =>
        LET L == last_predicted_character
            b == before.buffer
            a == IF L \in DOMAIN ACTION_GESTURES THEN ACTION_GESTURES[L] ELSE None
        IN /\ a = "SPACE" => text_buffer = b \o << " " >>
           /\ (a = "BACKSPACE" /\ b # << >>) =>
                 text_buffer = [i \in 1..(Len(b) - 1) |-> b[i]]
           /\ (a = "BACKSPACE" /\ b = << >>) => text_buffer = << >>
           /\ a = "DELETE" => text_buffer = << >>
           /\ L \notin DOMAIN ACTION_GESTURES => text_buffer = b \o << L >>

C8_Witness ==
    /\ IsSignDetected(out)
    /\ before.buffer = << "H", "I" >>
    /\ last_predicted_character = "B"
    /\ text_buffer = << "H" >>

\* C9: a frame on which the debounce emits (lines 242-243 ran: the counter is
\* back at 0) publishes exactly one sign_detected event, with the emitted
\* label, its action and the buffer after the action; any other frame
\* publishes nothing.  And when the events of a session are 'H' then 'I', the
\* buffer is "HI".
C9_OneEventPerEmission ==
    /\ [][\A w \in Workers : LET f == latest_frame' IN
            FrameStep(w, f) =>
              IF f.hands > 0 /\ frames_since_last_char' = 0
              THEN /\ Len(out') = 1
                   /\ out'[1].type = "sign_detected"
                   /\ out'[1].character = last_predicted_character'
                   /\ out'[1].action =
                        (IF last_predicted_character' \in DOMAIN ACTION_GESTURES
                         THEN ACTION_GESTURES[last_predicted_character']
                         ELSE None)
                   /\ out'[1].text_buffer = Join(text_buffer')
              ELSE out' = << >>]_vars
    /\ [](published = [chars |-> << "H", "I" >>, more |-> FALSE]
          => text_buffer = << "H", "I" >>)

C9_Witness ==
    /\ published = [chars |-> << "H", "I" >>, more |-> FALSE]
    /\ text_buffer = << "H", "I" >>
    /\ IsSignDetected(out)
    /\ out[1].character = "I"
    /\ out[1].text_buffer = "HI"

\* C10: a classification (c, p) whose label differs from the last accepted one
\* (so that the debounce lets it through) is emitted iff p >= threshold(c), the
\* per-class threshold of c when there is one and 0.65 otherwise; with a model
\* that gives no probability it is always emitted.
C10_ConfidenceGate ==
    [][\A w \in Workers : LET f == latest_frame' IN
         ( /\ FrameStep(w, f)
           /\ f.hands > 0
           /\ ~f.raises
           /\ f.idx \in DOMAIN labels_dict
           /\ labels_dict[f.idx] # last_predicted_character )
         => LET c == labels_dict[f.idx]
                threshold == IF c \in DOMAIN PER_CLASS_THRESHOLDS
                             THEN PER_CLASS_THRESHOLDS[c]
                             ELSE CONFIDENCE_THRESHOLD
            IN IsSignDetected(out') <=> (model = "hard" \/ f.proba >= threshold)]_vars

C10_Witness ==
    /\ model = "proba"
    /\ before.last # "D"
    /\ latest_frame = Frame(1, 12, 45, FALSE)
    /\ IsSignDetected(out)
    /\ out[1].character = "D"
    /\ out[1].confidence = PER_CLASS_THRESHOLDS["D"]

\* C11: a frame with a hand whose classification is 'Unknown' (a class index
\* outside labels_dict, or a classifier call that throws) or fails the
\* confidence gate adds exactly one to the frame counter and changes nothing
\* else: nothing is published, and the last accepted label and the text buffer
\* stay as they were.
C11_RejectedFrameOnlyCounts ==
    [][\A w \in Workers : LET f == latest_frame' IN
         ( /\ FrameStep(w, f)
           /\ f.hands > 0
           /\ \/ Classify(model, f).character = "Unknown"
              \/ ~PassedThreshold(Classify(model, f).character,
                                  Classify(model, f).proba) )
         => /\ frames_since_last_char' = frames_since_last_char + 1
            /\ UNCHANGED << last_predicted_character, text_buffer >>
            /\ out' = << >>]_vars

C11_Witness ==
    /\ latest_frame = Frame(1, 16, 65, TRUE)
    /\ wpc[1] = "poll"
    /\ before = [last |-> "H", buffer |-> << "H" >>, count |-> 4]
    /\ last_predicted_character = "H"
    /\ text_buffer = << "H" >>
    /\ frames_since_last_char = 5
    /\ out = << >>

\* C12: a frame without a hand is not classified and changes nothing: nothing
\* is published, and the text buffer, the last accepted label and the frame
\* counter stay as they were.
C12_EmptyFrameNoEffect ==
    [][\A w \in Workers : LET f == latest_frame' IN
         (FrameStep(w, f) /\ f.hands = 0)
         => /\ ~process_frame(model, f, last_predicted_character, text_buffer,
                              frames_since_last_char).classified
            /\ UNCHANGED detection_vars
            /\ out' = << >>]_vars

C12_Witness ==
    /\ latest_frame = Frame(0, 0, 0, FALSE)
    /\ wpc[1] = "poll"
    /\ before = [last |-> "H", buffer |-> << "H" >>, count |-> 3]
    /\ last_predicted_character = "H"
    /\ text_buffer = << "H" >>
    /\ frames_since_last_char = 3
    /\ out = << >>

(* ----------------------- the feature extraction ------------------------ *)
(* process_frame up to line 169 on a frame in which MediaPipe found the     *)
(* hands hs: the detection state is not involved.                           *)
ExtractFeatures(hs) ==
    /\ multi_hand_landmarks' = hs
    /\ data_aux' = BuildFeatures(hs)
    /\ UNCHANGED << model, is_detection_active, detection_vars, latest_frame,
                    wpc, cap, ret, rpc, out, hist_vars, candidate_files,
                    other_vars >>

NextFeatures == \E hs \in HandLists : ExtractFeatures(hs)

SpecFeatures == InitFrames /\ [][NextFeatures]_vars

\* C13: for a frame with one or two detected hands of 21 landmarks each the
\* feature vector handed to the classifier has exactly 84 elements: 42 for
\* each detected hand, and 42 zeros in place of a missing second hand.
C13_FeatureVectorLength ==
    ( /\ Len(multi_hand_landmarks) \in 1..2
      /\ \A i \in DOMAIN multi_hand_landmarks :
            Len(multi_hand_landmarks[i].landmark) = 21 )
    => /\ data_aux.built
       /\ data_aux.classify
       /\ Len(data_aux.data_aux) = 84
       /\ Len(multi_hand_landmarks) = 1
            => SubSeq(data_aux.data_aux, 43, 84) = [k \in 1..42 |-> 0]

C13_Witness ==
    /\ Len(multi_hand_landmarks) = 1
    /\ Len(multi_hand_landmarks[1].landmark) = 21
    /\ data_aux.classify
    /\ Len(data_aux.data_aux) = 84
    /\ \E k \in 1..42 : data_aux.data_aux[k] # 0
    /\ \A k \in 43..84 : data_aux.data_aux[k] = 0

\* C14: clear_buffer can be taken in every state and always answers success;
\* after it the text buffer is empty, and the running flag, the last accepted
\* label and the frame counter are as they were.
C14_ClearBuffer ==
    /\ [](ENABLED clear_buffer)
    /\ [][clear_buffer =>
            /\ text_buffer' = << >>
            /\ out' = << Response("clear_buffer", TRUE, "Buffer cleared") >>
            /\ UNCHANGED << is_detection_active, last_predicted_character,
                            frames_since_last_char >>]_vars

C14_Witness ==
    /\ out = << Response("clear_buffer", TRUE, "Buffer cleared") >>
    /\ text_buffer = << >>
    /\ is_detection_active
    /\ last_predicted_character = "H"
    /\ frames_since_last_char = 3

(* a step of a request-handling thread *)
RequestStep ==
    \/ \E r \in Requests : StartCheck(r)
    \/ \E r \in Requests : StartSpawn(r)
    \/ stop_detection
    \/ get_text_buffer
    \/ clear_buffer

\* C15: only the worker thread writes the text buffer and the debounce state
\* (the last accepted label and the frame counter): no step of a
\* request-handling thread changes any of them.
C15_WorkerSoleMutator ==
    [][RequestStep => UNCHANGED detection_vars]_vars

\* C16: the test and the set of the running flag in start_detection are one
\* atomic step with respect to the other control requests: a start request
\* that is accepted (sets the flag and starts a worker) finds the flag clear,
\* so that of two start requests running together from Stopped only one is
\* accepted.
C16_StartAtomic ==
    [][\A r \in Requests : StartSpawn(r) => ~is_detection_active]_vars

\* C17: when socketio.emit raises while process_frame publishes sign_detected,
\* the frame loop goes on: the worker is still in detection_loop, with its
\* camera, about to test the flag and read the next frame, and the session is
\* still running.
C17_PublishFailureKeepsLoop ==
    [][\A w \in Workers :
         (\E f \in CtlFrames : PublishFails(w, f))
         => /\ wpc'[w] = "poll"
            /\ cap'[w] = "open"
            /\ is_detection_active' = is_detection_active]_vars

\* C19: every session an accepted start_detection creates begins with the
\* debounce in Idle (no last accepted label), so that the first accepted
\* classification of the new session is emitted whatever an earlier session
\* left behind.
C19_SessionStartsIdle ==
    [][\A r \in Requests :
         (StartSpawn(r) /\ ~is_detection_active /\ LiveWorkers = {})
         => last_predicted_character' = None]_vars

(* ------------------------- the load at import -------------------------- *)
(* Every combination of what the four candidate paths hold, the import, and *)
(* the first thing that shows the result: the checks of start_detection.    *)
AllCandidates == [1..Len(candidate_paths) -> CandidateKinds]

InitLoad == \E files \in AllCandidates : Imported(files)

NextLoad == \E r \in Requests : StartCheck(r)

SpecLoad == InitLoad /\ [][NextLoad]_vars

\* C18: the loader tries the candidate paths in their fixed order and stops at
\* the first that yields a model; the server is without a model only if no
\* candidate yields one: a candidate that is missing, unreadable or unusable
\* does not keep the later ones from being tried.
C18_FirstLoadableWins ==
    LET usable == { i \in DOMAIN candidate_files :
                      candidate_files[i] \in {"proba", "hard"} }
    IN IF usable = {}
       THEN model = "none"
       ELSE model = candidate_files[MinOf(usable)]

(* ------------------ the debounce as a state machine -------------------- *)
(* Idle, or Holding(prev, n): prev was emitted and n frames with a hand     *)
(* have been processed since.  On an accepted label equal to prev the       *)
(* machine emits when n >= need at the start of the frame.                  *)
Holding(prev, n) == [label |-> prev, n |-> n]

HoldingStep(h, kind, f, need) ==
    IF kind = "none" \/ f.hands = 0
    THEN [state |-> h, emit |-> FALSE]
    ELSE IF ~Accepted(kind, f)
    THEN [state |-> IF h = Idle THEN Idle ELSE Holding(h.label, h.n + 1),
          emit |-> FALSE]
    ELSE LET c == Classify(kind, f).character IN
         IF h = Idle \/ c # h.label \/ h.n >= need
         THEN [state |-> Holding(c, 0), emit |-> TRUE]
         ELSE [state |-> Holding(h.label, h.n + 1), emit |-> FALSE]

(* the frames of the comparison: no hand, a classifier that throws, 'H' at  *)
(* and below its threshold, 'I' with two hands                              *)
DebounceFrames ==
    { Frame(0, 0, 0, FALSE), Frame(1, 16, 65, TRUE), Frame(1, 16, 65, FALSE),
      Frame(1, 16, 64, FALSE), Frame(2, 17, 30, FALSE) }

(* a frame step with the two machines stepping alongside: stated compares n *)
(* with the cooldown, amended with the cooldown less one                    *)
DebounceStep(w, f) ==
    /\ FrameStep(w, f)
    /\ UNCHANGED standalone
    /\ holding' =
         [stated  |-> HoldingStep(holding.stated, model, f,
                                  repeat_cooldown_frames).state,
          amended |-> HoldingStep(holding.amended, model, f,
                                  repeat_cooldown_frames - 1).state]

NextDebounce ==
    \/ \E w \in Workers : PollFlag(w)
    \/ \E w \in Workers : \E f \in DebounceFrames : DebounceStep(w, f)

SpecDebounce == InitFrames /\ [][NextDebounce]_vars

\* C20 as stated: process_frame emits on exactly the frames on which the
\* machine Holding(prev, n), with n = 0 right after an emission, emits, where
\* on an accepted label equal to prev the machine emits iff n >= cooldown = 5
\* at the start of the frame and otherwise moves to Holding(prev, n + 1).
C20_DebounceRefinesMachine ==
    [][\A w \in Workers : LET f == latest_frame' IN
         DebounceStep(w, f)
         => (IsSignDetected(out')
             <=> HoldingStep(holding.stated, model, f,
                             repeat_cooldown_frames).emit)]_vars

\* C20 amended: process_frame emits on exactly the frames on which the machine
\* emits that, on an accepted label equal to prev, emits iff n >= cooldown - 1
\* = 4 at the start of the frame (the counter is incremented before it is
\* compared with the cooldown); and the machine's state is the last accepted
\* label with the frame counter.
C20_DebounceRefinesShiftedMachine ==
    /\ [](/\ holding.amended.label = last_predicted_character
          /\ last_predicted_character # None
               => holding.amended.n = frames_since_last_char)
    /\ [][\A w \in Workers : LET f == latest_frame' IN
            DebounceStep(w, f)
            => (IsSignDetected(out')
                <=> HoldingStep(holding.amended, model, f,
                                repeat_cooldown_frames - 1).emit)]_vars

C20_Witness ==
    /\ before = [last |-> "H", buffer |-> << "H" >>, count |-> 4]
    /\ latest_frame = Frame(1, 16, 65, FALSE)
    /\ IsSignDetected(out)
    /\ text_buffer = << "H", "H" >>
    /\ holding.amended = Holding("H", 0)
    /\ holding.stated = Holding("H", 5)

\* C21: when the camera does not open after an accepted start_detection, the
\* failure is surfaced and the session is over: an error event is published,
\* the worker ends without reading a frame, and the running flag is cleared,
\* so that the next start_detection is accepted without a stop_detection.
C21_OpenFailureEndsSession ==
    [][\A w \in Workers :
         ( /\ OpenCamera(w)
           /\ cap'[w] = "none"
           /\ LiveWorkers = {w}
           /\ \A r \in Requests : rpc[r] = "idle" )
         => /\ out' = << Event("error", "Could not open video capture") >>
            /\ wpc'[w] = "idle"
            /\ ~is_detection_active']_vars

(* the place of a handedness in the order Left, Right, unknown *)
HandRank(label) == IF label = "Left" THEN 0 ELSE IF label = "Right" THEN 1 ELSE 2

\* C22: the order of the hands in the feature vector is determined: a hand
\* labelled Left comes before one labelled Right and both before a hand of
\* unknown handedness, hands with the same label keep their detection order,
\* no more than two blocks are made, and a single hand fills the first 42
\* features whatever its handedness.
C22_HandOrder ==
    LET hs == multi_hand_landmarks
        F(i) == [k \in 1..42 |->
                   IF k % 2 = 1
                   THEN hs[i].landmark[(k + 1) \div 2][1]
                        - MinOf({ hs[i].landmark[j][1] : j \in 1..21 })
                   ELSE hs[i].landmark[k \div 2][2]
                        - MinOf({ hs[i].landmark[j][2] : j \in 1..21 })]
    IN ( /\ hs # << >>
         /\ \A i \in DOMAIN hs : Len(hs[i].landmark) = 21 )
       => /\ Len(data_aux.data_aux) = 2 * 42
          /\ Len(hs) = 1 => SubSeq(data_aux.data_aux, 1, 42) = F(1)
          /\ Len(hs) = 2 =>
               IF HandRank(hs[1].label) <= HandRank(hs[2].label)
               THEN data_aux.data_aux = F(1) \o F(2)
               ELSE data_aux.data_aux = F(2) \o F(1)

C22_Witness ==
    /\ Len(multi_hand_landmarks) = 2
    /\ multi_hand_landmarks[1] = Hand("Right", LandmarksOf(<< 100, 200 >>, 1))
    /\ multi_hand_landmarks[2] = Hand("Left", LandmarksOf(<< 400, 300 >>, 2))
    /\ SubSeq(data_aux.data_aux, 1, 42) = HandFeatures(multi_hand_landmarks[2])
    /\ SubSeq(data_aux.data_aux, 43, 84) = HandFeatures(multi_hand_landmarks[1])
    /\ HandFeatures(multi_hand_landmarks[1]) # HandFeatures(multi_hand_landmarks[2])

(* the hands hs with the i-th moved by d = << dx, dy >> in the frame *)
Translate(hs, i, d) ==
    [hs EXCEPT ![i].landmark =
        [j \in DOMAIN @ |-> << @[j][1] + d[1], @[j][2] + d[2] >>]]

Shifts == { << 50, 0 >>, << -30, 70 >>, << 0, -200 >> }

\* C23: every hand is normalised by itself: its features are its landmarks'
\* coordinates less its own smallest x and smallest y.  So every feature is
\* >= 0, the block of each detected hand has an x feature and a y feature
\* equal to 0, and moving one hand by any (dx, dy), the other staying where
\* it is, leaves the whole vector of 84 features as it was.
C23_PerHandNormalisation ==
    LET hs   == multi_hand_landmarks
        data == data_aux.data_aux
    IN ( /\ hs # << >>
         /\ \A i \in DOMAIN hs : Len(hs[i].landmark) = 21 )
       => /\ \A k \in 1..84 : data[k] >= 0
          /\ \A b \in 1..Len(hs) :
               /\ \E j \in 1..21 : data[42 * (b - 1) + 2 * j - 1] = 0
               /\ \E j \in 1..21 : data[42 * (b - 1) + 2 * j] = 0
          /\ \A i \in DOMAIN hs : \A d \in Shifts :
               BuildFeatures(Translate(hs, i, d)).data_aux = data

C23_Witness ==
    /\ Len(multi_hand_landmarks) = 2
    /\ multi_hand_landmarks[1] = Hand("Left", LandmarksOf(<< 400, 300 >>, 1))
    /\ multi_hand_landmarks[2] = Hand("Right", LandmarksOf(<< 100, 200 >>, 1))
    /\ data_aux.data_aux =
         BuildFeatures(<< Hand("Left", LandmarksOf(<< 100, 200 >>, 1)),
                          Hand("Right", LandmarksOf(<< 100, 200 >>, 1)) >>).data_aux
    /\ \E k \in 1..84 : data_aux.data_aux[k] > 0

\* C24: the preview is a reader of a single slot holding the latest frame: a
\* worker in detection_loop can always take its next step, whatever the
\* generator does; with no frame stored yet the generator yields nothing;
\* an image it yields is the frame the worker stored last; and a turn of the
\* generator changes neither the stored frame nor the text buffer, the
\* debounce state, the running flag or the workers.
C24_PreviewReadsLatest ==
    /\ [](\A w \in LiveWorkers : ENABLED WorkerStep(w))
    /\ [][mjpeg_generator =>
            /\ UNCHANGED << latest_frame, detection_vars, is_detection_active,
                            wpc, cap, ret >>
            /\ latest_frame = NoFrame => out' = << >>
            /\ out' # << >> => out' = << Preview(latest_frame) >>]_vars

C24_Witness ==
    /\ out = << Preview(Frame(1, 16, 65, FALSE)) >>
    /\ latest_frame = Frame(1, 16, 65, FALSE)
    /\ is_detection_active
    /\ wpc[1] = "read"
    /\ text_buffer = << "H" >>

(* ---------------------- prediction.py on the same frames --------------- *)
(* One turn of the loop of prediction.py (lines 79-245) with no key pressed, *)
(* on its own state s: lines 94 and 153-208.  Its classification, gate and  *)
(* action table are those of the server, statement for statement.           *)
prediction_frame(kind, frame, s) ==
    IF frame.hands = 0
    THEN [s EXCEPT !.accepted = FALSE]
    ELSE
      LET cls     == Classify(kind, frame)
          counted == s.count + 1                                   \* line 159
          passed  == PassedThreshold(cls.character, cls.proba)     \* lines 181-184
      IN IF cls.character # s.last /\ cls.character # "Unknown" /\ passed   \* line 195
         THEN [last |-> cls.character, buffer |-> Dispatch(s.buffer, cls.character),
               count |-> 0, accepted |-> TRUE]
         ELSE [s EXCEPT !.count = counted, !.accepted = FALSE]

(* the server and prediction.py given the same frame *)
StandaloneStep(w, f) ==
    /\ FrameStep(w, f)
    /\ UNCHANGED holding
    /\ LET s == prediction_frame(model, f, standalone)
       IN /\ s.count <= MaxCount
          /\ standalone' = s

NextStandalone ==
    \/ \E w \in Workers : PollFlag(w)
    \/ \E w \in Workers : \E f \in DebounceFrames : StandaloneStep(w, f)

SpecStandalone == InitFrames /\ [][NextStandalone]_vars

\* C25: given the same frames (and no key pressed) prediction.py and the
\* server's process_frame accept a label on the same frames and hold the same
\* text buffer; so prediction.py too accepts a repeat of the label it holds
\* once repeat_cooldown_frames = 5 frames have passed since it accepted it.
C25_StandaloneSameDetection ==
    /\ [](standalone.buffer = text_buffer)
    /\ [][\A w \in Workers : LET f == latest_frame' IN
            StandaloneStep(w, f) => (standalone'.accepted <=> IsSignDetected(out'))]_vars

\* C26: 'S', 'B' and 'D' stand for SPACE, BACKSPACE and DELETE, so in every
\* reachable state each character of the text buffer is a space or one of
\* the 35 labels other than 'S', 'B' and 'D'.
C26_BufferAlphabet ==
    \A i \in DOMAIN text_buffer :
        \/ text_buffer[i] = " "
        \/ /\ \E k \in 0..34 : labels_dict[k] = text_buffer[i]
           /\ text_buffer[i] \notin {"S", "B", "D"}

C26_Witness ==
    /\ text_buffer = << "H", " " >>
    /\ IsSignDetected(out)
    /\ out[1].character = "S"
    /\ before.buffer = << "H" >>

\* C27: an accepted start_detection empties the text buffer; stop_detection,
\* a camera that does not open or a read that fails, and the worker leaving
\* its loop leave the buffer as it is, so that get_text_buffer after a session
\* still answers the text gathered in it; get_text_buffer answers the buffer
\* joined into a string and changes nothing.
C27_BufferLifetime ==
    [][/\ (\E r \in Requests : StartSpawn(r)) => text_buffer' = << >>
       /\ ( \/ stop_detection
            \/ \E w \in Workers : OpenCamera(w) \/ ReadFail(w) \/ ExitLoop(w) )
          => UNCHANGED text_buffer
       /\ get_text_buffer
          => /\ out' = << [type |-> "response", op |-> "get_text_buffer",
                           text_buffer |-> Join(text_buffer)] >>
             /\ UNCHANGED << model, is_detection_active, detection_vars,
                             latest_frame, wpc, cap, ret, rpc >>]_vars

C27_Witness ==
    /\ ~is_detection_active
    /\ LiveWorkers = {}
    /\ text_buffer = << "H", "H" >>
    /\ out = << [type |-> "response", op |-> "get_text_buffer",
                 text_buffer |-> "HH"] >>

(* --------------------------- database.py ------------------------------- *)
(* Every DatabaseManager method opens a connection of its own.  With the     *)
(* sqlite3 module's default transaction handling a SELECT reads what is      *)
(* committed without opening a transaction, and the first UPDATE or INSERT   *)
(* opens one that holds the database's write lock until commit: the writes   *)
(* of one call are one step, a SELECT before them is a step of its own.      *)
(* A token is its row number; a stored hash is the password it verifies.     *)
server_vars == << model, is_detection_active, detection_vars, latest_frame,
                  wpc, cap, ret, rpc, out, hist_vars, input_vars >>

NoEmail == 0
NoToken == 0
ResetPasswords == {"pw1", "pw2"}

DbResult(op, success) == [op |-> op, success |-> success]

(* lines 214-247 *)
create_password_reset_token(email) ==
    /\ IF email \notin DbUsers
       THEN /\ db_out' = << DbResult("create_password_reset_token", FALSE) >>   \* line 224
            /\ UNCHANGED password_reset_tokens
       ELSE /\ Len(password_reset_tokens) < MaxTokens
            /\ password_reset_tokens' =
                 Append([t \in DOMAIN password_reset_tokens |->
                           IF password_reset_tokens[t].user = email
                           THEN [password_reset_tokens[t] EXCEPT !.used = TRUE]
                           ELSE password_reset_tokens[t]],                       \* lines 229-231
                        [user |-> email, used |-> FALSE, expired |-> FALSE,
                         resets |-> 0])                                         \* lines 234-240
            /\ db_out' = << [op |-> "create_password_reset_token", success |-> TRUE,
                             token |-> Len(password_reset_tokens) + 1] >>
    /\ UNCHANGED << password_hash, sessions, reset_call, server_vars, sched_vars >>

(* time passes: the oldest token still valid reaches its expires_at *)
TokenExpires(t) ==
    /\ t \in DOMAIN password_reset_tokens
    /\ ~password_reset_tokens[t].expired
    /\ \A s \in 1..(t - 1) : password_reset_tokens[s].expired
    /\ password_reset_tokens' = [password_reset_tokens EXCEPT ![t].expired = TRUE]
    /\ UNCHANGED << password_hash, sessions, reset_call, db_out, server_vars,
                    sched_vars >>

(* reset_password, lines 256-265: the SELECT that validates the token *)
ResetPasswordSelect(c, token, new_password) ==
    /\ reset_call[c].pc = "idle"
    /\ IF /\ token \in DOMAIN password_reset_tokens
          /\ ~password_reset_tokens[token].used
          /\ ~password_reset_tokens[token].expired
       THEN /\ reset_call' = [reset_call EXCEPT ![c] =
                                [pc |-> "update", token |-> token,
                                 user |-> password_reset_tokens[token].user,
                                 password |-> new_password]]
            /\ UNCHANGED db_out
       ELSE /\ db_out' = << DbResult("reset_password", FALSE) >>                \* line 263
            /\ UNCHANGED reset_call
    /\ UNCHANGED << password_hash, password_reset_tokens, sessions, server_vars,
                    sched_vars >>

(* reset_password, lines 268-279: the two UPDATEs and the commit *)
ResetPasswordCommit(c) ==
    /\ reset_call[c].pc = "update"
    /\ password_hash' = [password_hash EXCEPT ![reset_call[c].user] = reset_call[c].password]
    /\ password_reset_tokens' =
         [password_reset_tokens EXCEPT ![reset_call[c].token].used = TRUE,
                                       ![reset_call[c].token].resets = @ + 1]
    /\ reset_call' = [reset_call EXCEPT ![c] = NoCall]
    /\ db_out' = << DbResult("reset_password", TRUE) >>
    /\ UNCHANGED << sessions, server_vars, sched_vars >>

(* reset_password, lines 280-283: an UPDATE raises (the write lock is not    *)
(* had in time); nothing is committed                                        *)
ResetPasswordFails(c) ==
    /\ reset_call[c].pc = "update"
    /\ reset_call' = [reset_call EXCEPT ![c] = NoCall]
    /\ db_out' = << DbResult("reset_password", FALSE) >>
    /\ UNCHANGED << password_hash, password_reset_tokens, sessions, server_vars,
                    sched_vars >>

NextTokens ==
    \/ \E email \in DbUsers \cup {NoEmail} : create_password_reset_token(email)
    \/ \E t \in 1..MaxTokens : TokenExpires(t)
    \/ \E c \in DbCallers : \E t \in (1..MaxTokens) \cup {NoToken} :
          \E pw \in ResetPasswords : ResetPasswordSelect(c, t, pw)
    \/ \E c \in DbCallers : ResetPasswordCommit(c)
    \/ \E c \in DbCallers : ResetPasswordFails(c)

SpecTokens == Init /\ [][NextTokens]_vars

\* C28: a password-reset token is good for one reset: over its whole life a
\* token sees at most one successful reset_password, also when two calls with
\* it run at once; and a reset_password that succeeds used the token created
\* last for its user.
C28_ResetTokenSingleUse ==
    /\ [](\A t \in DOMAIN password_reset_tokens : password_reset_tokens[t].resets <= 1)
    /\ [][\A c \in DbCallers :
            ResetPasswordCommit(c)
            => \A s \in DOMAIN password_reset_tokens :
                 s > reset_call[c].token
                 => password_reset_tokens[s].user # reset_call[c].user]_vars

(* ------------------------ database.py: sessions ------------------------ *)
(* A session token is its row number in sessions.  logged_out is history:   *)
(* logout_user was called with the token.                                    *)

(* create_session leaving the user's earlier sessions active *)
create_session_KeepsOld(user_id) ==
    /\ Len(sessions) < MaxSessions
    /\ sessions' = Append(sessions,
                          [user |-> user_id, active |-> TRUE, expired |-> FALSE,
                           logged_out |-> FALSE])
    /\ db_out' = << [op |-> "create_session", success |-> TRUE,
                     token |-> Len(sessions) + 1] >>
    /\ UNCHANGED << password_hash, password_reset_tokens, reset_call, server_vars,
                    sched_vars >>

(* lines 139-164: the UPDATE and the INSERT are one write transaction *)
create_session(user_id) ==
    /\ Len(sessions) < MaxSessions
    /\ sessions' = Append([s \in DOMAIN sessions |->
                             IF sessions[s].user = user_id
                             THEN [sessions[s] EXCEPT !.active = FALSE]
                             ELSE sessions[s]],                       \* lines 146-148
                          [user |-> user_id, active |-> TRUE, expired |-> FALSE,
                           logged_out |-> FALSE])                     \* lines 151-157
    /\ db_out' = << [op |-> "create_session", success |-> TRUE,
                     token |-> Len(sessions) + 1] >>
    /\ UNCHANGED << password_hash, password_reset_tokens, reset_call, server_vars,
                    sched_vars >>

(* time passes: the oldest session not yet expired reaches its expires_at *)
SessionExpires(s) ==
    /\ s \in DOMAIN sessions
    /\ ~sessions[s].expired
    /\ \A q \in 1..(s - 1) : sessions[q].expired
    /\ sessions' = [sessions EXCEPT ![s].expired = TRUE]
    /\ UNCHANGED << password_hash, password_reset_tokens, reset_call, db_out,
                    server_vars, sched_vars >>

(* lines 166-196 *)
validate_session(token) ==
    /\ db_out' = << [op |-> "validate_session", token |-> token,
                     success |-> /\ token \in DOMAIN sessions
                                 /\ sessions[token].active
                                 /\ ~sessions[token].expired
                                 /\ sessions[token].user \in DbUsers] >>
    /\ UNCHANGED << password_hash, password_reset_tokens, sessions, reset_call,
                    server_vars, sched_vars >>

(* lines 198-212 *)
logout_user(token) ==
    /\ sessions' = [s \in DOMAIN sessions |->
                      IF s = token
                      THEN [sessions[s] EXCEPT !.active = FALSE, !.logged_out = TRUE]
                      ELSE sessions[s]]
    /\ db_out' = << [op |-> "logout_user", token |-> token, success |-> TRUE] >>
    /\ UNCHANGED << password_hash, password_reset_tokens, reset_call, server_vars,
                    sched_vars >>

NextSessions ==
    \/ \E u \in DbUsers : create_session(u)
    \/ \E s \in 1..MaxSessions : SessionExpires(s)
    \/ \E t \in (1..MaxSessions) \cup {NoToken} : validate_session(t)
    \/ \E t \in (1..MaxSessions) \cup {NoToken} : logout_user(t)

SpecSessions == Init /\ [][NextSessions]_vars

\* C29: whatever create_session and logout_user calls were made, a user has at
\* most one active session; a validate_session that succeeds was given the
\* session created last for its user, and one on which logout_user was not
\* called; after logout_user(token), validate_session(token) fails.
C29_OneActiveSession ==
    /\ \A u \in DbUsers :
         Cardinality({ s \in DOMAIN sessions :
                         sessions[s].user = u /\ sessions[s].active }) <= 1
    /\ \A t \in DOMAIN sessions :
         sessions[t].logged_out => ~sessions[t].active
    /\ ( /\ db_out # << >>
         /\ db_out[1].op = "validate_session"
         /\ db_out[1].success )
       => LET t == db_out[1].token
          IN /\ t \in DOMAIN sessions
             /\ ~sessions[t].logged_out
             /\ \A s \in DOMAIN sessions :
                  s > t => sessions[s].user # sessions[t].user

C29_Witness ==
    /\ Len(sessions) = 2
    /\ sessions[1].user = sessions[2].user
    /\ ~sessions[1].active
    /\ ~sessions[1].logged_out
    /\ db_out = << [op |-> "validate_session", token |-> 2, success |-> TRUE] >>

(* ------------------- multilingual-assistant/scheduler.py ------------------- *)
(* timers[r].pc is the position of reminder r and of its Timer thread:        *)
(*   "none"     add_reminder(r) not called yet                                *)
(*   "appended" r is in _reminders, timer.start() not reached (line 50)       *)
(*   "waiting"  the Timer thread waits on its finished event                  *)
(*   "checked"  the thread found finished unset and is about to call _fire    *)
(*   "calling"  on_reminder(note) is running (line 40)                        *)
(*   "finally"  on_reminder returned or raised; the finally block is next     *)
(*   "done"     the Timer thread has ended                                    *)
(* swept is history: the reminders that cancel_all found in the list before   *)
(* their callback had started.                                                *)

(* lines 33-50: the reminder and its Timer are built and the reminder appended *)
AddAppend(r) ==
    /\ timers[r].pc = "none"
    /\ reminders' = Append(reminders, r)
    /\ timers' = [timers EXCEPT ![r].pc = "appended"]
    /\ UNCHANGED << swept, db_vars, server_vars >>

(* lines 52-55: timer.start() *)
AddStart(r) ==
    /\ timers[r].pc = "appended"
    /\ timers' = [timers EXCEPT ![r].pc = "waiting"]
    /\ UNCHANGED << reminders, swept, db_vars, server_vars >>

(* threading.Timer.run: finished.wait(interval), then the finished.is_set() test *)
TimerCheck(r) ==
    /\ timers[r].pc = "waiting"
    /\ timers' = [timers EXCEPT ![r].pc = IF timers[r].finished THEN "done"
                                           ELSE "checked"]
    /\ UNCHANGED << reminders, swept, db_vars, server_vars >>

(* line 40: _fire enters on_reminder *)
FireCall(r) ==
    /\ timers[r].pc = "checked"
    /\ timers' = [timers EXCEPT ![r].pc = "calling", ![r].calls = @ + 1]
    /\ UNCHANGED << reminders, swept, db_vars, server_vars >>

(* line 40: on_reminder returns or raises; either way the finally block follows *)
FireReturn(r) ==
    /\ timers[r].pc = "calling"
    /\ timers' = [timers EXCEPT ![r].pc = "finally"]
    /\ UNCHANGED << reminders, swept, db_vars, server_vars >>

(* lines 41-44: under the lock, the reminder is removed if it is still listed *)
FireRemove(r) ==
    /\ timers[r].pc = "finally"
    /\ reminders' = SelectSeq(reminders, LAMBDA q : q # r)
    /\ timers' = [timers EXCEPT ![r].pc = "done"]
    /\ UNCHANGED << swept, db_vars, server_vars >>

Listed == { reminders[i] : i \in DOMAIN reminders }

(* lines 57-65: under the lock, every listed timer is cancelled, the list cleared *)
cancel_all ==
    /\ timers' = [r \in ReminderIds |->
                    IF r \in Listed THEN [timers[r] EXCEPT !.finished = TRUE]
                    ELSE timers[r]]
    /\ reminders' = << >>
    /\ swept' = swept \cup { r \in Listed :
                               timers[r].pc \in {"appended", "waiting", "checked"} }
    /\ UNCHANGED << db_vars, server_vars >>

NextSched ==
    \/ \E r \in ReminderIds :
         \/ AddAppend(r)
         \/ AddStart(r)
         \/ TimerCheck(r)
         \/ FireCall(r)
         \/ FireReturn(r)
         \/ FireRemove(r)
    \/ cancel_all

SpecSched == Init /\ [][NextSched]_vars

\* C30: under any interleaving of add_reminder, timer firings and cancel_all, a
\* reminder invokes on_reminder at most once and is no longer listed once its
\* callback has finished; when cancel_all returns the list is empty; and a
\* reminder that cancel_all found listed before its callback had started never
\* invokes on_reminder.
C30_CancelledNeverFires ==
    /\ [](\A r \in ReminderIds :
            /\ timers[r].calls <= 1
            /\ (timers[r].pc = "done" => r \notin Listed)
            /\ (r \in swept => timers[r].calls = 0))
    /\ [][cancel_all => reminders' = << >>]_vars

====
